---- MODULE Spec2Model ----
(***************************************************************************)
(* whois42d: the accept/drain lifecycle of Server (server.go) and the      *)
(* query engine of Registry (whois/query.go).                              *)
(*                                                                         *)
(* Four specifications share the variables:                                *)
(*   Spec      the server lifecycle: main, one Run goroutine per listener, *)
(*             one handleConn goroutine per accepted connection;           *)
(*   FairSpec  Spec with the fairness of the Go scheduler;                 *)
(*   QSpec     one connection handled by HandleQuery, for every request    *)
(*             line and every registry of the bounded sets;                *)
(*   CidrSpec  the loop of readCidrs and the scan of printNet, for every   *)
(*             directory listing and every query address.                  *)
(*                                                                         *)
(* The handler of a connection is Registry.HandleQuery, run under the     *)
(* deferred Close and Done of Server.handleConn.  server.go still holds    *)
(* the lookup code that package whois replaced; it is not modelled.        *)
(*                                                                         *)
(* Text is modelled as a sequence of characters (one-character strings).   *)
(* An IP address literal is one element of such a sequence ("10.0.0.1"):   *)
(* no splitting rule looks into it, and a pattern sees only whether it     *)
(* starts or ends with a digit.                                            *)
(***************************************************************************)
EXTENDS Integers, Sequences, FiniteSets, TLC

(* ------------------------------ bounds -------------------------------- *)

\* Listeners handed over by the supervisor (socket activation).
MaxListeners == 2
\* Connections accepted in one behaviour.
MaxConns == 2
\* The clock stops here (seconds).
MaxTime == 3
\* The -timeout option of the run, in seconds.
TimeoutOption == 2
\* Directory entries of one listing in CidrSpec.
MaxFiles == 3

(* -------------------------- program constants -------------------------- *)

\* time.After(time.Second * 3)
CheckPeriod == 3

\* Kind of a catalog rule (iota constants).
UPPER == 0
LOWER == 1
ROUTE == 2
ROUTE6 == 3

VARIABLES
    SocketActivation,  \* Server.SocketActivation
    SocketTimeout,     \* opts.SocketTimeout
    stopListening,     \* Server.stopListening
    activeWorkers,     \* counter of Server.activeWorkers (sync.WaitGroup)
    LastConnection,    \* Server.LastConnection
    now,               \* the clock read by time.Now()
    run,               \* listener -> the Run goroutine: [pc, conn, t, seen]
    main,              \* the main goroutine: [pc, timer, cause]
    exited,            \* the process has terminated
    conns,             \* connection -> [pc, input, out]
    registry,          \* the registry directory tree under DataPath
    rc                 \* one readCidrs/printNet call: [pc, files, cidrs, ip, objs]

vars == <<SocketActivation, SocketTimeout, stopListening, activeWorkers,
          LastConnection, now, run, main, exited, conns, registry, rc>>

(* ------------------------------- text --------------------------------- *)

NIL == <<>>


\* s[from..to], empty when from > to.
Sub(s, from, to) == IF from > to THEN <<>> ELSE SubSeq(s, from, to)

HasPrefix(s, p) == Len(s) >= Len(p) /\ Sub(s, 1, Len(p)) = p
HasSuffix(s, p) == Len(s) >= Len(p) /\ Sub(s, Len(s) - Len(p) + 1, Len(s)) = p
TrimPrefix(s, p) == IF HasPrefix(s, p) THEN Sub(s, Len(p) + 1, Len(s)) ELSE s
TrimSuffix(s, p) == IF HasSuffix(s, p) THEN Sub(s, 1, Len(s) - Len(p)) ELSE s

\* strings.Index for a one-character needle: 0 when absent.
IndexOf(s, c) ==
    IF \E i \in 1..Len(s) : s[i] = c
    THEN CHOOSE i \in 1..Len(s) : s[i] = c /\ \A j \in 1..(i - 1) : s[j] # c
    ELSE 0

LastIndexOf(s, c) ==
    IF \E i \in 1..Len(s) : s[i] = c
    THEN CHOOSE i \in 1..Len(s) : s[i] = c /\ \A j \in (i + 1)..Len(s) : s[j] # c
    ELSE 0

\* strings.Replace(s, old, new, -1) for one-character old and new.
Replace(s, old, new) == [i \in 1..Len(s) |-> IF s[i] = old THEN new ELSE s[i]]

WhiteSpace == {" ", "\n", "\r", "\t"}

RECURSIVE TrimLeft(_)
TrimLeft(s) ==
    IF s # <<>> /\ Head(s) \in WhiteSpace THEN TrimLeft(Tail(s)) ELSE s

RECURSIVE TrimRight(_)
TrimRight(s) ==
    IF s # <<>> /\ s[Len(s)] \in WhiteSpace
    THEN TrimRight(Sub(s, 1, Len(s) - 1)) ELSE s

\* strings.TrimSpace
TrimSpace(s) == TrimRight(TrimLeft(s))

\* Lower-case / upper-case pairs of the characters the model uses.  The
\* IPv6 literals change case as a whole.
CasePairs ==
    { <<"a", "A">>, <<"b", "B">>, <<"c", "C">>, <<"d", "D">>, <<"e", "E">>,
      <<"f", "F">>, <<"g", "G">>, <<"h", "H">>, <<"i", "I">>, <<"j", "J">>,
      <<"k", "K">>, <<"l", "L">>, <<"m", "M">>, <<"n", "N">>, <<"o", "O">>,
      <<"p", "P">>, <<"q", "Q">>, <<"r", "R">>, <<"s", "S">>, <<"t", "T">>,
      <<"u", "U">>, <<"v", "V">>, <<"w", "W">>, <<"x", "X">>, <<"y", "Y">>,
      <<"z", "Z">>,
      <<"fd00::", "FD00::">>, <<"fd00::1", "FD00::1">>,
      <<"fd00:0::", "FD00:0::">>, <<"::ffff:10.0.0.0", "::FFFF:10.0.0.0">> }

UpCh(c) ==
    IF \E p \in CasePairs : p[1] = c
    THEN (CHOOSE p \in CasePairs : p[1] = c)[2] ELSE c
LowCh(c) ==
    IF \E p \in CasePairs : p[2] = c
    THEN (CHOOSE p \in CasePairs : p[2] = c)[1] ELSE c

\* strings.ToUpper, strings.ToLower
ToUpper(s) == [i \in 1..Len(s) |-> UpCh(s[i])]
ToLower(s) == [i \in 1..Len(s) |-> LowCh(s[i])]

Digits == {"0", "1", "2", "3", "4", "5", "6", "7", "8", "9"}
DigitVal(c) ==
    CASE c = "0" -> 0 [] c = "1" -> 1 [] c = "2" -> 2 [] c = "3" -> 3
      [] c = "4" -> 4 [] c = "5" -> 5 [] c = "6" -> 6 [] c = "7" -> 7
      [] c = "8" -> 8 [] c = "9" -> 9

\* net.dtoi on a whole string: -1 unless it is a non-empty run of digits.
RECURSIVE DtoiAcc(_, _)
DtoiAcc(s, acc) ==
    IF s = <<>> THEN acc
    ELSE IF Head(s) \notin Digits THEN -1
    ELSE DtoiAcc(Tail(s), acc * 10 + DigitVal(Head(s)))
Dtoi(s) == IF s = <<>> THEN -1 ELSE DtoiAcc(s, 0)

\* path.Base: the last element of the path; "." for the empty string and
\* "/" for a string of slashes only.
RECURSIVE TrimSlashes(_)
TrimSlashes(s) ==
    IF s # <<>> /\ s[Len(s)] = "/" THEN TrimSlashes(Sub(s, 1, Len(s) - 1)) ELSE s
Base(s) ==
    IF s = <<>> THEN <<".">>
    ELSE LET t == TrimSlashes(s)
             u == Sub(t, LastIndexOf(t, "/") + 1, Len(t))
         IN IF u = <<>> THEN <<"/">> ELSE u

(* ---------------------------- package net ------------------------------ *)

Zeros(n) == [i \in 1..n |-> 0]
v4InV6Prefix == Zeros(10) \o <<255, 255>>

\* net.IPv4(a, b, c, d): the 16-byte form of an IPv4 address.
IPv4(a, b, c, d) == v4InV6Prefix \o <<a, b, c, d>>
V6(hi, lo) == <<hi>> \o Zeros(14) \o <<lo>>

\* The address literals of the model and the bytes ParseIP gives for them;
\* canon marks the text IP.String() prints for these bytes.
IPLiterals ==
    { [text |-> "10.0.0.0",     ip |-> IPv4(10, 0, 0, 0),     canon |-> TRUE],
      [text |-> "10.0.0.1",     ip |-> IPv4(10, 0, 0, 1),     canon |-> TRUE],
      [text |-> "10.1.0.0",     ip |-> IPv4(10, 1, 0, 0),     canon |-> TRUE],
      [text |-> "10.1.0.1",     ip |-> IPv4(10, 1, 0, 1),     canon |-> TRUE],
      [text |-> "172.23.136.0", ip |-> IPv4(172, 23, 136, 0), canon |-> TRUE],
      [text |-> "172.23.136.1", ip |-> IPv4(172, 23, 136, 1), canon |-> TRUE],
      [text |-> "fd00::",       ip |-> V6(253, 0),            canon |-> TRUE],
      [text |-> "fd00::1",      ip |-> V6(253, 1),            canon |-> TRUE],
      [text |-> "fd00:0::",     ip |-> V6(253, 0),            canon |-> FALSE],
      [text |-> "::ffff:10.0.0.0", ip |-> IPv4(10, 0, 0, 0),  canon |-> FALSE] }

\* The literals in dotted form, which parseIPv4 accepts; the rest are in
\* the form with colons.
DottedLiterals ==
    {"10.0.0.0", "10.0.0.1", "10.1.0.0", "10.1.0.1", "172.23.136.0", "172.23.136.1"}

\* net.ParseIP: NIL unless s is an address literal (hex digits in any case).
ParseIP(s) ==
    IF Len(s) = 1 /\ \E l \in IPLiterals : l.text = LowCh(s[1])
    THEN (CHOOSE l \in IPLiterals : l.text = LowCh(s[1])).ip
    ELSE NIL

\* IP.To4: the 4-byte form of an IPv4 address, NIL for any other.
To4(ip) ==
    IF Len(ip) = 4 THEN ip
    ELSE IF Len(ip) = 16 /\ Sub(ip, 1, 12) = v4InV6Prefix
    THEN Sub(ip, 13, 16)
    ELSE NIL

Pow2(n) == IF n = 0 THEN 1 ELSE IF n = 1 THEN 2 ELSE IF n = 2 THEN 4
           ELSE IF n = 3 THEN 8 ELSE IF n = 4 THEN 16 ELSE IF n = 5 THEN 32
           ELSE IF n = 6 THEN 64 ELSE IF n = 7 THEN 128 ELSE 256

\* net.CIDRMask(ones, 8 * n): n bytes, the first `ones` bits set.
CIDRMask(ones, n) ==
    [i \in 1..n |->
        IF ones >= 8 * i THEN 255
        ELSE IF ones <= 8 * (i - 1) THEN 0
        ELSE 256 - Pow2(8 - (ones - 8 * (i - 1)))]

\* byte & mask byte, for a mask byte of CIDRMask.
AndByte(b, m) == b - (b % (256 - m))

\* IP.Mask for the two shapes ParseCIDR produces: a 16-byte IPv4 address
\* under a 4-byte mask gives 4 bytes, an IPv6 address under a 16-byte mask
\* gives 16.
MaskIP(ip, mask) ==
    LET a == IF Len(mask) = 4 /\ Len(ip) = 16
                 /\ Sub(ip, 1, 12) = v4InV6Prefix
             THEN Sub(ip, 13, 16) ELSE ip
    IN IF Len(a) # Len(mask) THEN NIL
       ELSE [i \in 1..Len(a) |-> AndByte(a[i], mask[i])]

\* net.ParseCIDR: [ok, ip, net]; net is the IPNet [IP, Mask].
ParseCIDR(s) ==
    LET i    == IndexOf(s, "/")
        addr == Sub(s, 1, i - 1)
        mask == Sub(s, i + 1, Len(s))
        ip   == ParseIP(addr)
        len  == IF Len(addr) = 1 /\ addr[1] \in DottedLiterals THEN 4 ELSE 16
        n    == Dtoi(mask)
        bad  == [ok |-> FALSE, ip |-> NIL, net |-> [IP |-> NIL, Mask |-> NIL]]
    IN IF i = 0 \/ ip = NIL \/ n < 0 \/ n > 8 * len THEN bad
       ELSE LET m == CIDRMask(n, len)
            IN [ok |-> TRUE, ip |-> ip, net |-> [IP |-> MaskIP(ip, m), Mask |-> m]]

\* networkNumberAndMask: the address in 4 bytes when it is an IPv4
\* address, with the last 4 bytes of a 16-byte mask.
networkNumberAndMask(net) ==
    LET ip == IF To4(net.IP) # NIL THEN To4(net.IP) ELSE net.IP
    IN IF Len(net.Mask) = 16 /\ Len(ip) = 4
       THEN [IP |-> ip, Mask |-> Sub(net.Mask, 13, 16)]
       ELSE IF Len(net.Mask) # Len(ip) THEN [IP |-> NIL, Mask |-> NIL]
       ELSE [IP |-> ip, Mask |-> net.Mask]

\* IPNet.Contains
Contains(net, ip) ==
    LET x == IF To4(ip) # NIL THEN To4(ip) ELSE ip
        n == networkNumberAndMask(net)
    IN /\ Len(x) = Len(n.IP)
       /\ \A i \in 1..Len(x) :
             AndByte(n.IP[i], n.Mask[i]) = AndByte(x[i], n.Mask[i])

\* The number of leading one bits of a mask byte of CIDRMask.
OnesOfByte(m) == CHOOSE k \in 0..8 : 256 - Pow2(8 - k) = m

\* simpleMaskLength
RECURSIVE MaskLength(_)
MaskLength(mask) ==
    IF mask = <<>> THEN 0 ELSE OnesOfByte(Head(mask)) + MaskLength(Tail(mask))

\* strconv.Itoa for 0..128.
DigitCh(d) == CHOOSE c \in Digits : DigitVal(c) = d
Itoa(n) ==
    IF n < 10 THEN <<DigitCh(n)>>
    ELSE IF n < 100 THEN <<DigitCh(n \div 10), DigitCh(n % 10)>>
    ELSE <<DigitCh(n \div 100), DigitCh((n \div 10) % 10), DigitCh(n % 10)>>

\* IP.String: the canonical text of the bytes.
IPString(ip) ==
    LET b == IF Len(ip) = 4 THEN v4InV6Prefix \o ip ELSE ip
    IN <<(CHOOSE l \in IPLiterals : l.ip = b /\ l.canon).text>>

\* IPNet.String
\* NetString from the address and mask as stored.
NetStringAsStored(net) ==
    IPString(net.IP) \o <<"/">> \o Itoa(MaskLength(net.Mask))

\* IPNet.String
NetString(net) ==
    LET n == networkNumberAndMask(net)
    IN IPString(n.IP) \o <<"/">> \o Itoa(MaskLength(n.Mask))

\* bytes.Compare: -1, 0, 1 by lexicographic order.
RECURSIVE BytesCompare(_, _)
BytesCompare(a, b) ==
    IF a = <<>> /\ b = <<>> THEN 0
    ELSE IF a = <<>> THEN -1
    ELSE IF b = <<>> THEN 1
    ELSE IF Head(a) < Head(b) THEN -1
    ELSE IF Head(a) > Head(b) THEN 1
    ELSE BytesCompare(Tail(a), Tail(b))

(* ----------------------------- the catalog ----------------------------- *)

\* var whoisTypes: the rules in declaration order.  Pattern names the
\* regular expression; "nil" for the network rules.
whoisTypes ==
    << [Name |-> "aut-num",      Pattern |-> "^AS([0123456789]+)$", Kind |-> UPPER],
       [Name |-> "dns",          Pattern |-> ".dn42$",              Kind |-> LOWER],
       [Name |-> "person",       Pattern |-> "-DN42$",              Kind |-> UPPER],
       [Name |-> "mntner",       Pattern |-> "-MNT$",               Kind |-> UPPER],
       [Name |-> "schema",       Pattern |-> "-SCHEMA$",            Kind |-> UPPER],
       [Name |-> "organisation", Pattern |-> "ORG-",                Kind |-> UPPER],
       [Name |-> "tinc-keyset",  Pattern |-> "^SET-.+-TINC$",       Kind |-> UPPER],
       [Name |-> "tinc-key",     Pattern |-> "-TINC$",              Kind |-> UPPER],
       [Name |-> "as-set",       Pattern |-> "^AS",                 Kind |-> UPPER],
       [Name |-> "route-set",    Pattern |-> "^RS-",                Kind |-> UPPER],
       [Name |-> "inetnum",      Pattern |-> "nil",                 Kind |-> ROUTE],
       [Name |-> "inet6num",     Pattern |-> "nil",                 Kind |-> ROUTE6],
       [Name |-> "route",        Pattern |-> "nil",                 Kind |-> ROUTE],
       [Name |-> "route6",       Pattern |-> "nil",                 Kind |-> ROUTE6],
       [Name |-> "as-block",     Pattern |-> "\\d+_\\d+",           Kind |-> UPPER] >>

TypeNames == {whoisTypes[i].Name : i \in 1..Len(whoisTypes)}

\* Characters a regular expression's \d sees at the end / at the start of
\* an element of the text: a digit, or an address literal.
EndsInDigit(c) ==
    c \in Digits \cup DottedLiterals
         \cup {"fd00::1", "FD00::1", "::ffff:10.0.0.0", "::FFFF:10.0.0.0"}
StartsWithDigit(c) ==
    c \in Digits \cup DottedLiterals

\* The text `lit` occurs in s.
ContainsText(s, lit) ==
    \E i \in 1..(Len(s) - Len(lit) + 1) : Sub(s, i, i + Len(lit) - 1) = lit

\* Regexp.MatchString for the patterns of the catalog.  "." matches any
\* character but a line break; "$" matches at the end of the text only.
MatchString(pattern, s) ==
    CASE pattern = "^AS([0123456789]+)$" ->
            /\ HasPrefix(s, <<"A", "S">>)
            /\ Len(s) > 2
            /\ \A i \in 3..Len(s) : s[i] \in Digits
      [] pattern = ".dn42$" ->
            /\ HasSuffix(s, <<"d", "n", "4", "2">>)
            /\ Len(s) >= 5
            /\ s[Len(s) - 4] # "\n"
      [] pattern = "-DN42$" -> HasSuffix(s, <<"-", "D", "N", "4", "2">>)
      [] pattern = "-MNT$" -> HasSuffix(s, <<"-", "M", "N", "T">>)
      [] pattern = "-SCHEMA$" ->
            HasSuffix(s, <<"-", "S", "C", "H", "E", "M", "A">>)
      [] pattern = "ORG-" -> ContainsText(s, <<"O", "R", "G", "-">>)
      [] pattern = "^SET-.+-TINC$" ->
            /\ HasPrefix(s, <<"S", "E", "T", "-">>)
            /\ HasSuffix(s, <<"-", "T", "I", "N", "C">>)
            /\ Len(s) >= 10
            /\ \A i \in 5..(Len(s) - 5) : s[i] # "\n"
      [] pattern = "-TINC$" -> HasSuffix(s, <<"-", "T", "I", "N", "C">>)
      [] pattern = "^AS" -> HasPrefix(s, <<"A", "S">>)
      [] pattern = "^RS-" -> HasPrefix(s, <<"R", "S", "-">>)
      [] pattern = "\\d+_\\d+" ->
            \E i \in 2..(Len(s) - 1) :
                s[i] = "_" /\ EndsInDigit(s[i - 1]) /\ StartsWithDigit(s[i + 1])
      [] OTHER -> FALSE

(* ------------------------------ readCidrs ------------------------------ *)

\* Search with the comparison of the masks turned round.
RECURSIVE SearchReversed(_, _, _, _)
SearchReversed(cidrs, cidr, i, j) ==
    IF i >= j THEN i
    ELSE LET h == (i + j) \div 2
         IN IF BytesCompare(cidrs[h + 1].Mask, cidr.Mask) <= 0
            THEN SearchReversed(cidrs, cidr, i, h)
            ELSE SearchReversed(cidrs, cidr, h + 1, j)

\* sort.Search(n, f): binary search for the least i in 0..n with f(i),
\* here with f(i) = bytes.Compare(cidrs[i].Mask, cidr.Mask) >= 0.  Indices
\* are Go's (0-based); cidrs[h + 1] is Go's cidrs[h].
RECURSIVE Search(_, _, _, _)
Search(cidrs, cidr, i, j) ==
    IF i >= j THEN i
    ELSE LET h == (i + j) \div 2
         IN IF BytesCompare(cidrs[h + 1].Mask, cidr.Mask) >= 0
            THEN Search(cidrs, cidr, i, h)
            ELSE Search(cidrs, cidr, h + 1, j)

\* insertCidr writing cidr over the element at the position found.
insertCidrOverwrites(cidrs, cidr) ==
    LET i == Search(cidrs, cidr, 0, Len(cidrs))
    IN IF i < Len(cidrs)
       THEN Sub(cidrs, 1, i) \o <<cidr>> \o Sub(cidrs, i + 2, Len(cidrs))
       ELSE Append(cidrs, cidr)

\* insertCidr without the search: cidr goes to the end.
insertCidrAppends(cidrs, cidr) == Append(cidrs, cidr)

\* The body of the loop after a successful parse: insert cidr at the
\* position sort.Search returns.
insertCidr(cidrs, cidr) ==
    LET i == Search(cidrs, cidr, 0, Len(cidrs))
    IN IF i < Len(cidrs)
       THEN Sub(cidrs, 1, i) \o <<cidr>> \o Sub(cidrs, i + 1, Len(cidrs))
       ELSE Append(cidrs, cidr)

\* One iteration of the loop over the directory entries, for the entry
\* named `name`: an entry that does not parse is skipped.
readCidrsStep(cidrs, name) ==
    LET p == ParseCIDR(Replace(name, "_", "/"))
    IN IF ~p.ok THEN cidrs ELSE insertCidr(cidrs, p.net)

\* readCidrs on a directory whose listing is `names`.  ioutil.ReadDir
\* lists by name; the model takes the names in every order.
RECURSIVE readCidrsFrom(_, _)
readCidrsFrom(cidrs, names) ==
    IF names = <<>> THEN cidrs
    ELSE readCidrsFrom(readCidrsStep(cidrs, Head(names)), Tail(names))
readCidrs(names) == readCidrsFrom(<<>>, names)

\* The key printNet fetches for a loaded network:
\* strings.Replace(c.String(), "/", "_", -1).
netKey(c) == Replace(NetString(c), "/", "_")

\* The networks the scan of printNet selects, in the order of the list.
RECURSIVE containing(_, _)
containing(cidrs, ip) ==
    IF cidrs = <<>> THEN <<>>
    ELSE (IF Contains(Head(cidrs), ip) THEN <<Head(cidrs)>> ELSE <<>>)
         \o containing(Tail(cidrs), ip)

(* ------------------------- flags (parseFlags) -------------------------- *)

\* strings.Split(s, " ")
RECURSIVE Split(_)
Split(s) ==
    LET i == IndexOf(s, " ")
    IN IF i = 0 THEN <<s>>
       ELSE <<Sub(s, 1, i - 1)>> \o Split(Sub(s, i + 1, Len(s)))

Quotes == {"'", "\""}

\* The loop of shellSplit over the words of the split: a word that starts
\* with a quote opens a block, which the next word ending with that quote
\* closes; a block left open is dropped.
RECURSIVE shellSplitLoop(_, _, _, _)
shellSplitLoop(split, result, inquote, block) ==
    IF split = <<>> THEN result
    ELSE LET i == Head(split)
         IN IF inquote = ""
            THEN IF i # <<>> /\ i[1] \in Quotes
                 THEN shellSplitLoop(Tail(split), result, i[1],
                                     TrimPrefix(i, <<i[1]>>) \o <<" ">>)
                 ELSE shellSplitLoop(Tail(split), Append(result, i), "", <<>>)
            ELSE IF ~HasSuffix(i, <<inquote>>)
                 THEN shellSplitLoop(Tail(split), result, inquote,
                                     block \o i \o <<" ">>)
                 ELSE shellSplitLoop(Tail(split),
                                     Append(result, block \o TrimSuffix(i, <<inquote>>)),
                                     "", <<>>)

shellSplit(s) == shellSplitLoop(Split(s), <<>>, "", <<>>)

\* The flags parseFlags defines, all of them string flags.
FormalFlags == {<<"q">>, <<"t">>, <<"T">>}

\* FlagSet.Parse (package flag): [err, q, args].  err is "" (parsed),
\* "help" (flag.ErrHelp) or "fail" (any other error); q is the value of
\* -q, args what is left after the flags.
RECURSIVE flagParse(_, _)
flagParse(args, q) ==
    IF args = <<>> THEN [err |-> "", q |-> q, args |-> <<>>]
    ELSE LET s == Head(args)
         IN IF Len(s) < 2 \/ s[1] # "-"
            THEN [err |-> "", q |-> q, args |-> args]
            ELSE IF s = <<"-", "-">>
            THEN [err |-> "", q |-> q, args |-> Tail(args)]
            ELSE
              LET minuses == IF s[2] = "-" THEN 2 ELSE 1
                  full    == Sub(s, minuses + 1, Len(s))
                  eq      == IF \E k \in 2..Len(full) : full[k] = "="
                             THEN CHOOSE k \in 2..Len(full) :
                                      full[k] = "="
                                      /\ \A j \in 2..(k - 1) : full[j] # "="
                             ELSE 0
                  name    == IF eq = 0 THEN full ELSE Sub(full, 1, eq - 1)
                  rest    == Tail(args)
              IN IF full = <<>> \/ full[1] = "-" \/ full[1] = "="
                 THEN [err |-> "fail", q |-> q, args |-> rest]
                 ELSE IF name \notin FormalFlags
                 THEN [err |-> IF name \in {<<"h">>, <<"h", "e", "l", "p">>}
                               THEN "help" ELSE "fail",
                       q |-> q, args |-> rest]
                 ELSE IF eq # 0
                 THEN flagParse(rest, IF name = <<"q">>
                                      THEN Sub(full, eq + 1, Len(full)) ELSE q)
                 ELSE IF rest = <<>>
                 THEN [err |-> "fail", q |-> q, args |-> rest]
                 ELSE flagParse(Tail(rest),
                                IF name = <<"q">> THEN Head(rest) ELSE q)

\* parseFlags(request): [err, ServerInfo, Args].
parseFlags(request) ==
    LET r == flagParse(shellSplit(request), <<>>)
    IN [err |-> r.err, ServerInfo |-> r.q, Args |-> r.args]

(* ---------------------------- the registry ----------------------------- *)

\* A registry maps each type name to its directory: exists (the directory
\* can be listed) and files, the listing in the order ioutil.ReadDir gives,
\* each file [name, mode]; mode "ok" or "eperm" (os.Open fails with an
\* error other than "not exist").
File(name) == [name |-> name, mode |-> "ok"]
Dir(files) == [exists |-> TRUE, files |-> files]
NoDir == [exists |-> FALSE, files |-> <<>>]

Names(files) == [i \in 1..Len(files) |-> files[i].name]

\* os.Open(path.Join(DataPath, objType, obj)): "ok", "missing" or "eperm".
OpenFile(reg, objType, obj) ==
    LET d == reg[objType]
    IN IF d.exists /\ \E i \in 1..Len(d.files) : d.files[i].name = obj
       THEN (CHOOSE f \in {d.files[i] : i \in 1..Len(d.files)} : f.name = obj).mode
       ELSE "missing"

(* ------------------------------ responses ------------------------------ *)

\* What is written to the connection, as a sequence of pieces: k the kind
\* of piece, t and o the type and key it is about.
Piece(k, t, o) == [k |-> k, t |-> t, o |-> o]
Banner == Piece("banner", "", <<>>)    \* "% This is the dn42 whois query service.\n\n"
NotFound == Piece("404", "", <<>>)     \* "% 404\n"
BlankLine == Piece("nl", "", <<>>)     \* "\n"

\* Registry.printObject: nothing when the file cannot be opened, else the
\* header, the content of the file and a line break.
printObject(reg, objType, obj) ==
    IF OpenFile(reg, objType, obj) # "ok" THEN <<>>
    ELSE << Piece("header", objType, obj), Piece("body", objType, obj),
            Piece("nl", objType, obj) >>

\* The pieces printObject writes for the keys, in order.
RECURSIVE printObjects(_, _, _)
printObjects(reg, name, keys) ==
    IF keys = <<>> THEN <<>>
    ELSE printObject(reg, name, Head(keys)) \o printObjects(reg, name, Tail(keys))

\* Registry.printNet: [out, found].  A directory that cannot be listed
\* gives no networks.
printNet(reg, name, ip) ==
    LET cidrs == IF reg[name].exists THEN readCidrs(Names(reg[name].files)) ELSE <<>>
        sel   == containing(cidrs, ip)
    IN [out   |-> printObjects(reg, name, [i \in 1..Len(sel) |-> netKey(sel[i])]),
        found |-> sel # <<>>]

\* parseObject(arg): the Object map; NIL stands for an absent key.
\* parseObject with the address parsed from the whole argument.
parseObjectWhole(arg) ==
    LET obj == Base(arg)
        ip0 == ParseIP(arg)
        ip  == IF ip0 = NIL THEN ParseCIDR(arg).ip ELSE ip0
    IN [upper  |-> ToUpper(obj),
        lower  |-> ToLower(obj),
        route  |-> IF ip # NIL /\ To4(ip) # NIL THEN To4(ip) ELSE NIL,
        route6 |-> IF ip # NIL /\ To4(ip) = NIL THEN ip ELSE NIL]

parseObject(arg) ==
    LET obj == Base(arg)
        ip0 == ParseIP(obj)
        ip  == IF ip0 = NIL THEN ParseCIDR(arg).ip ELSE ip0
    IN [upper  |-> ToUpper(obj),
        lower  |-> ToLower(obj),
        route  |-> IF ip # NIL /\ To4(ip) # NIL THEN To4(ip) ELSE NIL,
        route6 |-> IF ip # NIL /\ To4(ip) = NIL THEN ip ELSE NIL]

\* object[t.Kind]
ObjectArg(object, kind) ==
    CASE kind = UPPER -> object.upper
      [] kind = LOWER -> object.lower
      [] kind = ROUTE -> object.route
      [] kind = ROUTE6 -> object.route6

\* One iteration of the loop of handleObject, for rule t: [out, found].
\* "found || r.printNet(...)" does not call printNet once found is true.
handleType(reg, object, t, found) ==
    IF t.Kind = ROUTE \/ t.Kind = ROUTE6
    THEN IF ObjectArg(object, t.Kind) # NIL
         THEN IF found THEN [out |-> <<>>, found |-> TRUE]
              ELSE printNet(reg, t.Name, ObjectArg(object, t.Kind))
         ELSE [out |-> <<>>, found |-> found]
    ELSE LET arg == ObjectArg(object, t.Kind)
         IN IF MatchString(t.Pattern, arg)
            THEN [out |-> printObject(reg, t.Name, arg), found |-> TRUE]
            ELSE [out |-> <<>>, found |-> found]

\* Registry.handleObject is the loop of handleType over whoisTypes.
\* foundAfter: the value of found after the first i rules.
RECURSIVE foundAfter(_, _, _)
foundAfter(reg, object, i) ==
    IF i = 0 THEN FALSE
    ELSE handleType(reg, object, whoisTypes[i], foundAfter(reg, object, i - 1)).found

\* What the rules from rule i on write.
RECURSIVE handleObjectOut(_, _, _)
handleObjectOut(reg, object, i) ==
    IF i > Len(whoisTypes) THEN <<>>
    ELSE handleType(reg, object, whoisTypes[i], foundAfter(reg, object, i - 1)).out
         \o handleObjectOut(reg, object, i + 1)

\* Registry.handleObject: [out, found]
handleObject(reg, object) ==
    [out   |-> handleObjectOut(reg, object, 1),
     found |-> foundAfter(reg, object, Len(whoisTypes))]

W_version == <<"v", "e", "r", "s", "i", "o", "n">>
W_sources == <<"s", "o", "u", "r", "c", "e", "s">>
W_types == <<"t", "y", "p", "e", "s">>

\* Registry.printServerInfo
printServerInfo(what) ==
    IF what = W_version THEN <<Piece("version", "", <<>>)>>
    ELSE IF what = W_sources THEN <<Piece("sources", "", <<>>)>>
    ELSE IF what = W_types
    THEN [i \in 1..Len(whoisTypes) |-> Piece("type", whoisTypes[i].Name, <<>>)]
    ELSE <<Piece("unknown", "", what)>>

\* bufio.Reader.ReadString('\n') on what the client sends: the text up to
\* and including the first line break, or an error when there is none.
ReadString(input) ==
    LET i == IndexOf(input.data, "\n")
    IN IF i = 0 THEN [req |-> input.data, e |-> input.err]
       ELSE [req |-> Sub(input.data, 1, i), e |-> "nil"]

\* parseQuery: [ok, out, flags, objects].  A read error writes nothing; a
\* flag error writes the error (unless it is ErrHelp) and the defaults.
parseQuery(input) ==
    LET r == ReadString(input)
        f == parseFlags(r.req)
        none == [ok |-> FALSE, out |-> <<>>, ServerInfo |-> <<>>, Objects |-> <<>>]
    IN IF r.e # "nil" THEN none
       ELSE IF f.err # ""
       THEN [none EXCEPT !.out =
                (IF f.err # "help" THEN <<Piece("flagerror", "", <<>>)>> ELSE <<>>)
                \o <<Piece("defaults", "", <<>>)>>]
       ELSE [ok |-> TRUE, out |-> <<>>, ServerInfo |-> f.ServerInfo,
             Objects |-> [i \in 1..Len(f.Args) |-> parseObject(TrimSpace(f.Args[i]))]]

\* The loop of HandleQuery over query.Objects: what the calls of
\* handleObject write, and whether one of them returned true.
RECURSIVE handleObjectsOut(_, _)
handleObjectsOut(reg, objects) ==
    IF objects = <<>> THEN <<>>
    ELSE handleObject(reg, Head(objects)).out \o handleObjectsOut(reg, Tail(objects))

handleObjectsFound(reg, objects) ==
    \E i \in 1..Len(objects) : handleObject(reg, objects[i]).found

\* handleQueryRest without the return after a failed parseQuery: the
\* not-found path follows the usage.
handleQueryRestFallsThrough(reg, input) ==
    LET query == parseQuery(input)
    IN IF ~query.ok
       THEN IF ReadString(input).e # "nil" THEN query.out
            ELSE query.out \o <<NotFound, BlankLine>>
       ELSE IF query.ServerInfo # <<>> THEN printServerInfo(query.ServerInfo)
       ELSE handleObjectsOut(reg, query.Objects)
            \o (IF ~handleObjectsFound(reg, query.Objects) THEN <<NotFound>> ELSE <<>>)
            \o <<BlankLine>>

\* HandleQuery after the banner: what parseQuery and the rest of the
\* function write for the input.
handleQueryRest(reg, input) ==
    LET query == parseQuery(input)
    IN IF ~query.ok THEN query.out
       ELSE IF query.ServerInfo # <<>> THEN printServerInfo(query.ServerInfo)
       ELSE handleObjectsOut(reg, query.Objects)
            \o (IF ~handleObjectsFound(reg, query.Objects) THEN <<NotFound>> ELSE <<>>)
            \o <<BlankLine>>

(* ------------------------- inputs of the model ------------------------- *)

\* File names of network objects: "/" written as "_".
N_10_8 == <<"10.0.0.0", "_", "8">>
N_10_1_16 == <<"10.1.0.0", "_", "1", "6">>
N_172_23 == <<"172.23.136.0", "_", "2", "3">>
N_fd_8 == <<"fd00::", "_", "8">>
\* host bits set, and a non-canonical spelling of fd00::
N_10h_8 == <<"10.0.0.1", "_", "8">>
N_fdalt_8 == <<"fd00:0::", "_", "8">>
\* 10.0.0.0/8 written as an IPv4-mapped IPv6 network
N_mapped_104 == <<"::ffff:10.0.0.0", "_", "1", "0", "4">>
\* names that are no network
J_readme == <<"R", "E", "A", "D", "M", "E">>
J_len33 == <<"10.0.0.0", "_", "3", "3">>

CidrNames == {N_10_8, N_10_1_16, N_172_23, N_fd_8, N_10h_8, N_fdalt_8,
              N_mapped_104, J_readme, J_len33}

\* The addresses printNet is called with: To4() of an IPv4 address, the
\* 16 bytes of an IPv6 address.
QueryIPs == {<<10, 0, 0, 1>>, <<10, 1, 0, 1>>, <<172, 23, 136, 1>>, V6(253, 1)}

\* Listings of at most n distinct names.
RECURSIVE Listings(_, _)
Listings(names, n) ==
    IF n = 0 THEN {<<>>}
    ELSE LET shorter == Listings(names, n - 1)
         IN shorter \cup
            {Append(l, x) : l \in {k \in shorter : Len(k) = n - 1},
                            x \in names} 

NoRepeat(l) == \A i, j \in 1..Len(l) : i # j => l[i] # l[j]

W_AS1 == <<"A", "S", "1">>
W_AS2 == <<"A", "S", "2">>
W_xdn42 == <<"x", ".", "d", "n", "4", "2">>
W_XDN42 == <<"X", "-", "D", "N", "4", "2">>
W_xx == <<"x", "x">>

EmptyRegistry == [t \in TypeNames |-> Dir(<<>>)]

\* A registry with records of several types; 172.23.136.0/23 is both an
\* inetnum and a route.
RegFull ==
    [t \in TypeNames |->
        CASE t = "aut-num" -> Dir(<<File(W_AS1)>>)
          [] t = "dns" -> Dir(<<File(W_xdn42)>>)
          [] t = "person" -> Dir(<<File(W_XDN42)>>)
          [] t = "inetnum" -> Dir(<<File(N_10_8), File(N_172_23)>>)
          [] t = "route" -> Dir(<<File(N_172_23), File(N_10_1_16)>>)
          [] t = "inet6num" -> Dir(<<File(N_fd_8)>>)
          [] t = "route6" -> Dir(<<File(N_fd_8)>>)
          [] OTHER -> Dir(<<>>)]

\* Routes only, among them a file that is no network.
RegRoutes ==
    [t \in TypeNames |->
        CASE t = "route" -> Dir(<<File(J_readme), File(N_10_8), File(N_172_23)>>)
          [] t = "route6" -> Dir(<<File(N_fd_8)>>)
          [] t = "as-set" -> Dir(<<File(W_AS1)>>)
          [] OTHER -> Dir(<<>>)]

\* File names that are not the canonical text of their network, an
\* unreadable record and a directory that cannot be listed.
RegOdd ==
    [t \in TypeNames |->
        CASE t = "aut-num" -> Dir(<<[name |-> W_AS1, mode |-> "eperm"]>>)
          [] t = "inetnum" -> Dir(<<File(N_10_8), File(N_10h_8)>>)
          [] t = "inet6num" -> Dir(<<File(N_fdalt_8)>>)
          [] t = "route" -> NoDir
          [] OTHER -> Dir(<<>>)]

\* Nested networks, the longer prefix listed first.
RegNested ==
    [t \in TypeNames |->
        CASE t = "inetnum" -> Dir(<<File(N_10_1_16), File(N_10_8)>>)
          [] t = "inet6num" -> Dir(<<File(N_fd_8)>>)
          [] OTHER -> Dir(<<>>)]

Registries == {EmptyRegistry, RegFull, RegRoutes, RegOdd, RegNested}

\* What a client sends: data, and err, what the read returns when data
\* holds no line break ("EOF": the client closed; "io": a read error).
Line(data) == [data |-> data \o <<"\n">>, err |-> "EOF"]
Unreadable(data, err) == [data |-> data, err |-> err]
Q == <<"-", "q", " ">>

Requests ==
    { Unreadable(<<>>, "EOF"), Unreadable(W_AS1, "EOF"), Unreadable(<<>>, "io"),
      Line(W_AS1), Line(W_AS2), Line(<<"a", "s", "1", "\r">>),
      Line(W_xdn42), Line(W_XDN42), Line(W_xx), Line(<<>>),
      Line(<<"10.0.0.1">>), Line(<<"10.1.0.1">>), Line(<<"172.23.136.1">>),
      Line(<<"172.23.136.0", "/", "2", "3">>), Line(<<"fd00::1">>),
      Line(<<"10.0.0.0", "_", "8">>),
      Line(W_AS1 \o <<" ">> \o W_xx), Line(W_xx \o <<" ">> \o <<"10.0.0.1">>),
      Line(<<"'">> \o W_AS1 \o <<" ">> \o W_xx \o <<"'", " ">>),
      Line(Q \o W_types), Line(Q \o W_version), Line(Q \o W_sources),
      Line(Q \o W_types \o <<"\r">>),
      Line(Q \o W_types \o <<" ">> \o W_AS1), Line(Q \o W_version \o <<" ">>),
      Line(Q \o W_sources \o <<" ">> \o W_xx), Line(Q \o W_xx \o <<" ">> \o W_AS1),
      Line(<<"-", "x">>), Line(<<"-", "h", " ">> \o W_AS1), Line(<<"-", "q">>),
      Line(<<"-", "T", " ">> \o W_xx \o <<" ">> \o W_AS1) }

\* The requests of the lifecycle specification, one for each way out of
\* HandleQuery: a line that cannot be read, a flag error, a server-info
\* directive, an object that is found and one that is not.
LifecycleRequests ==
    { Unreadable(<<>>, "EOF"), Line(<<"-", "x">>), Line(Q \o W_version \o <<" ">>),
      Line(W_AS1), Line(W_xx) }

\* handleQueryRest, tabulated over the registries and requests of the model.
responses == [reg \in Registries, input \in Requests |-> handleQueryRest(reg, input)]

(* --------------------------- the state machine ------------------------- *)

Listeners == 1..MaxListeners
Conns == 1..MaxConns

NoConn == [pc |-> "none", input |-> Unreadable(<<>>, "none"), out |-> <<>>]
NoCall == [pc |-> "idle", dir |-> <<>>, i |-> 0, cidrs |-> <<>>, ip |-> <<>>,
           sel |-> <<>>, objs |-> <<>>]

\* The state createServer leaves behind: New(dataPath), then one
\* "go server.Run(listener)" per listener, none of which has run yet.  With
\* socket activation there are n listeners, else the one bound here.
ServerCreated(activation, n) ==
    /\ SocketActivation = activation
    /\ stopListening = 0
    /\ activeWorkers = 0
    /\ LastConnection = 0
    /\ now = 0
    /\ run = [l \in Listeners |->
                [pc |-> IF l <= n THEN "spawned" ELSE "absent",
                 conn |-> 0, t |-> 0, seen |-> 0]]
    /\ main = [pc |-> "select", timer |-> 0, cause |-> "none"]
    /\ exited = FALSE
    /\ conns = [c \in Conns |-> NoConn]

Init ==
    /\ \E activation \in BOOLEAN :
         \E n \in 1..MaxListeners :
            /\ (~activation => n = 1)
            /\ ServerCreated(activation, n)
    /\ SocketTimeout = TimeoutOption
    /\ registry = RegFull
    /\ rc = NoCall

(* Server.Run, for the goroutine of listener l. *)

\* atomic.StoreInt32(&s.stopListening, 0)
RunStart(l) ==
    /\ ~exited
    /\ run[l].pc = "spawned"
    /\ stopListening' = 0
    /\ run' = [run EXCEPT ![l].pc = "register"]
    /\ UNCHANGED <<SocketActivation, SocketTimeout, activeWorkers, LastConnection,
                   now, main, exited, conns, registry, rc>>

\* s.activeWorkers.Add(1), with Done and listener.Close deferred
RunRegister(l) ==
    /\ ~exited
    /\ run[l].pc = "register"
    /\ activeWorkers' = activeWorkers + 1
    /\ run' = [run EXCEPT ![l].pc = "check"]
    /\ UNCHANGED <<SocketActivation, SocketTimeout, stopListening, LastConnection,
                   now, main, exited, conns, registry, rc>>

\* for atomic.LoadInt32(&s.stopListening) != 1
RunCheck(l) ==
    /\ ~exited
    /\ run[l].pc = "check"
    /\ run' = [run EXCEPT ![l].seen = stopListening,
                          ![l].pc = IF stopListening # 1 THEN "accept" ELSE "exit"]
    /\ UNCHANGED <<SocketActivation, SocketTimeout, stopListening, activeWorkers,
                   LastConnection, now, main, exited, conns, registry, rc>>

\* listener.SetDeadline fails: continue
RunDeadlineError(l) ==
    /\ ~exited
    /\ run[l].pc = "accept"
    /\ run' = [run EXCEPT ![l].pc = "check"]
    /\ UNCHANGED <<SocketActivation, SocketTimeout, stopListening, activeWorkers,
                   LastConnection, now, main, exited, conns, registry, rc>>

\* RunAcceptTimeout with the Add(1) of line 55 before the test of the error.
RunAcceptTimeoutCounts(l) ==
    /\ ~exited
    /\ run[l].pc = "accept"
    /\ activeWorkers' = activeWorkers + 1
    /\ run' = [run EXCEPT ![l].pc = "check"]
    /\ UNCHANGED <<SocketActivation, SocketTimeout, stopListening, LastConnection,
                   now, main, exited, conns, registry, rc>>

\* listener.AcceptTCP() returns a timeout error: continue
RunAcceptTimeout(l) ==
    /\ ~exited
    /\ run[l].pc = "accept"
    /\ run' = [run EXCEPT ![l].pc = "check"]
    /\ UNCHANGED <<SocketActivation, SocketTimeout, stopListening, activeWorkers,
                   LastConnection, now, main, exited, conns, registry, rc>>

\* listener.AcceptTCP() returns any other error: os.Exit(1)
RunAcceptError(l) ==
    /\ ~exited
    /\ run[l].pc = "accept"
    /\ run' = [run EXCEPT ![l].pc = "fatal"]
    /\ exited' = TRUE
    /\ UNCHANGED <<SocketActivation, SocketTimeout, stopListening, activeWorkers,
                   LastConnection, now, main, conns, registry, rc>>

\* listener.AcceptTCP() returns a connection
RunAccept(l) ==
    /\ ~exited
    /\ run[l].pc = "accept"
    /\ \E c \in Conns :
         /\ conns[c].pc = "none"
         /\ \A d \in Conns : d < c => conns[d].pc # "none"
         /\ conns' = [conns EXCEPT ![c].pc = "accepted"]
         /\ run' = [run EXCEPT ![l].pc = "add", ![l].conn = c]
    /\ UNCHANGED <<SocketActivation, SocketTimeout, stopListening, activeWorkers,
                   LastConnection, now, main, exited, registry, rc>>

\* s.activeWorkers.Add(1)
RunAdd(l) ==
    /\ ~exited
    /\ run[l].pc = "add"
    /\ activeWorkers' = activeWorkers + 1
    /\ run' = [run EXCEPT ![l].pc = "now"]
    /\ UNCHANGED <<SocketActivation, SocketTimeout, stopListening, LastConnection,
                   now, main, exited, conns, registry, rc>>

\* time.Now(), the right-hand side of the assignment
RunNow(l) ==
    /\ ~exited
    /\ run[l].pc = "now"
    /\ run' = [run EXCEPT ![l].pc = "stamp", ![l].t = now]
    /\ UNCHANGED <<SocketActivation, SocketTimeout, stopListening, activeWorkers,
                   LastConnection, now, main, exited, conns, registry, rc>>

\* s.LastConnection = ...
RunStamp(l) ==
    /\ ~exited
    /\ run[l].pc = "stamp"
    /\ LastConnection' = run[l].t
    /\ run' = [run EXCEPT ![l].pc = "go", ![l].t = 0]
    /\ UNCHANGED <<SocketActivation, SocketTimeout, stopListening, activeWorkers,
                   now, main, exited, conns, registry, rc>>

\* go s.handleConn(conn)
RunGo(l) ==
    /\ ~exited
    /\ run[l].pc = "go"
    /\ conns' = [conns EXCEPT ![run[l].conn].pc = "banner"]
    /\ run' = [run EXCEPT ![l].pc = "check", ![l].conn = 0]
    /\ UNCHANGED <<SocketActivation, SocketTimeout, stopListening, activeWorkers,
                   LastConnection, now, main, exited, registry, rc>>

\* the loop ends: the deferred listener.Close() and s.activeWorkers.Done()
RunExit(l) ==
    /\ ~exited
    /\ run[l].pc = "exit"
    /\ activeWorkers' = activeWorkers - 1
    /\ run' = [run EXCEPT ![l].pc = "done"]
    /\ UNCHANGED <<SocketActivation, SocketTimeout, stopListening, LastConnection,
                   now, main, exited, conns, registry, rc>>

(* Server.handleConn, for the goroutine of connection c: HandleQuery, then *)
(* the deferred conn.Close() and s.activeWorkers.Done().                   *)

\* fmt.Fprint(conn, "% This is the dn42 whois query service.\n\n")
HandleQueryBanner(c) ==
    /\ ~exited
    /\ conns[c].pc = "banner"
    /\ conns' = [conns EXCEPT ![c].out = Append(@, Banner), ![c].pc = "read"]
    /\ UNCHANGED <<SocketActivation, SocketTimeout, stopListening, activeWorkers,
                   LastConnection, now, run, main, exited, registry, rc>>

\* parseQuery, which blocks in the read of the request line, and the rest
\* of HandleQuery, for an input of the set `inputs`.
HandleQueryRest(c, inputs) ==
    /\ ~exited
    /\ conns[c].pc = "read"
    /\ \E input \in inputs :
         conns' = [conns EXCEPT ![c].input = input,
                                ![c].out = @ \o responses[registry, input],
                                ![c].pc = "close"]
    /\ UNCHANGED <<SocketActivation, SocketTimeout, stopListening, activeWorkers,
                   LastConnection, now, run, main, exited, registry, rc>>

HandleQuery(c) == HandleQueryRest(c, LifecycleRequests)

\* HandleConnClose with Done() skipped on the return for a request that
\* could not be read.
HandleConnCloseEarlyReturn(c) ==
    /\ ~exited
    /\ conns[c].pc = "close"
    /\ conns' = [conns EXCEPT ![c].pc = "closed"]
    /\ activeWorkers' = IF ReadString(conns[c].input).e = "nil"
                        THEN activeWorkers - 1 ELSE activeWorkers
    /\ UNCHANGED <<SocketActivation, SocketTimeout, stopListening, LastConnection,
                   now, run, main, exited, registry, rc>>

\* defer func() { conn.Close(); s.activeWorkers.Done() }()
HandleConnClose(c) ==
    /\ ~exited
    /\ conns[c].pc = "close"
    /\ conns' = [conns EXCEPT ![c].pc = "closed"]
    /\ activeWorkers' = activeWorkers - 1
    /\ UNCHANGED <<SocketActivation, SocketTimeout, stopListening, LastConnection,
                   now, run, main, exited, registry, rc>>

(* main, after createServer. *)

\* case <-signals (or <-signals without socket activation)
MainSignal ==
    /\ ~exited
    /\ main.pc = "select"
    /\ main' = [main EXCEPT !.pc = "shutdown", !.cause = "signal"]
    /\ UNCHANGED <<SocketActivation, SocketTimeout, stopListening, activeWorkers,
                   LastConnection, now, run, exited, conns, registry, rc>>

\* time.Since(t).Seconds()
Since(t) == now - t

\* time.Since(server.LastConnection).Seconds() >= opts.SocketTimeout
idleTimeout == Since(LastConnection) >= SocketTimeout

\* MainIdleCheck without the test of server.SocketActivation.
MainIdleCheckAnyServer ==
    /\ ~exited
    /\ main.pc = "select"
    /\ now - main.timer >= CheckPeriod
    /\ IF idleTimeout
       THEN main' = [main EXCEPT !.pc = "shutdown", !.cause = "idle"]
       ELSE main' = [main EXCEPT !.timer = now]
    /\ UNCHANGED <<SocketActivation, SocketTimeout, stopListening, activeWorkers,
                   LastConnection, now, run, exited, conns, registry, rc>>

\* case <-time.After(time.Second * 3): the idle check.  The read of
\* server.LastConnection is not synchronized with the write in Run: it
\* sees the value before or after a write in progress, as the
\* interleaving with RunStamp gives.
MainIdleCheck ==
    /\ ~exited
    /\ SocketActivation
    /\ main.pc = "select"
    /\ now - main.timer >= CheckPeriod
    /\ IF idleTimeout
       THEN main' = [main EXCEPT !.pc = "shutdown", !.cause = "idle"]
       ELSE main' = [main EXCEPT !.timer = now]
    /\ UNCHANGED <<SocketActivation, SocketTimeout, stopListening, activeWorkers,
                   LastConnection, now, run, exited, conns, registry, rc>>

\* Shutdown: atomic.StoreInt32(&s.stopListening, 1)
ShutdownStore ==
    /\ ~exited
    /\ main.pc = "shutdown"
    /\ stopListening' = 1
    /\ main' = [main EXCEPT !.pc = "wait"]
    /\ UNCHANGED <<SocketActivation, SocketTimeout, activeWorkers, LastConnection,
                   now, run, exited, conns, registry, rc>>

\* Shutdown: s.activeWorkers.Wait() reads the counter as zero
ShutdownWait ==
    /\ ~exited
    /\ main.pc = "wait"
    /\ activeWorkers = 0
    /\ main' = [main EXCEPT !.pc = "woken"]
    /\ UNCHANGED <<SocketActivation, SocketTimeout, stopListening, activeWorkers,
                   LastConnection, now, run, exited, conns, registry, rc>>

\* Wait and Shutdown return
ShutdownReturn ==
    /\ ~exited
    /\ main.pc = "woken"
    /\ main' = [main EXCEPT !.pc = "returned"]
    /\ UNCHANGED <<SocketActivation, SocketTimeout, stopListening, activeWorkers,
                   LastConnection, now, run, exited, conns, registry, rc>>

\* main returns: the process ends, and every goroutine with it
MainReturn ==
    /\ ~exited
    /\ main.pc = "returned"
    /\ main' = [main EXCEPT !.pc = "exited"]
    /\ exited' = TRUE
    /\ UNCHANGED <<SocketActivation, SocketTimeout, stopListening, activeWorkers,
                   LastConnection, now, run, conns, registry, rc>>

\* a second passes
Tick ==
    /\ ~exited
    /\ now < MaxTime
    /\ now' = now + 1
    /\ UNCHANGED <<SocketActivation, SocketTimeout, stopListening, activeWorkers,
                   LastConnection, run, main, exited, conns, registry, rc>>

Next ==
    \/ \E l \in Listeners :
         \/ RunStart(l) \/ RunRegister(l) \/ RunCheck(l) \/ RunDeadlineError(l)
         \/ RunAcceptTimeout(l) \/ RunAcceptError(l) \/ RunAccept(l)
         \/ RunAdd(l) \/ RunNow(l) \/ RunStamp(l) \/ RunGo(l) \/ RunExit(l)
    \/ \E c \in Conns :
         HandleQueryBanner(c) \/ HandleQuery(c) \/ HandleConnClose(c)
    \/ MainSignal \/ MainIdleCheck \/ ShutdownStore \/ ShutdownWait
    \/ ShutdownReturn \/ MainReturn
    \/ Tick

Spec == Init /\ [][Next]_vars

\* The Go scheduler runs every goroutine that can take a step: an accept
\* loop (whose accept returns within its one-second deadline), a handler
\* (whose client sends its line or closes) and Shutdown.  No fairness for
\* a signal, a new connection, an accept error or the clock.
RunSteps(l) ==
    \/ RunStart(l) \/ RunRegister(l) \/ RunCheck(l) \/ RunAcceptTimeout(l)
    \/ RunAdd(l) \/ RunNow(l) \/ RunStamp(l) \/ RunGo(l) \/ RunExit(l)
HandlerSteps(c) == HandleQueryBanner(c) \/ HandleQuery(c) \/ HandleConnClose(c)
ShutdownSteps == ShutdownStore \/ ShutdownWait \/ ShutdownReturn \/ MainReturn

FairSpec ==
    /\ Spec
    /\ \A l \in Listeners : WF_vars(RunSteps(l))
    /\ \A c \in Conns : WF_vars(HandlerSteps(c))
    /\ WF_vars(ShutdownSteps)

(* One connection of a running server, handled for every request and every *)
(* registry: the state after a server that bound its own listener accepted *)
(* its first connection and started the handler.                           *)
QInit ==
    /\ SocketActivation = FALSE
    /\ SocketTimeout = TimeoutOption
    /\ stopListening = 0
    /\ activeWorkers = 2
    /\ LastConnection = 0
    /\ now = 0
    /\ run = [l \in Listeners |->
                [pc |-> IF l = 1 THEN "check" ELSE "absent",
                 conn |-> 0, t |-> 0, seen |-> 0]]
    /\ main = [pc |-> "select", timer |-> 0, cause |-> "none"]
    /\ exited = FALSE
    /\ conns = [c \in Conns |-> IF c = 1 THEN [NoConn EXCEPT !.pc = "banner"]
                                ELSE NoConn]
    /\ registry \in Registries
    /\ rc = NoCall

QHandleQuery(c) == HandleQueryRest(c, Requests)

QNext == \E c \in Conns :
            HandleQueryBanner(c) \/ QHandleQuery(c) \/ HandleConnClose(c)

QSpec == QInit /\ [][QNext]_vars

(* Two connections of a running server handled side by side, for every    *)
(* pair of requests and every registry.                                    *)
DInit ==
    /\ SocketActivation = FALSE
    /\ SocketTimeout = TimeoutOption
    /\ stopListening = 0
    /\ activeWorkers = 1 + MaxConns
    /\ LastConnection = 0
    /\ now = 0
    /\ run = [l \in Listeners |->
                [pc |-> IF l = 1 THEN "check" ELSE "absent",
                 conn |-> 0, t |-> 0, seen |-> 0]]
    /\ main = [pc |-> "select", timer |-> 0, cause |-> "none"]
    /\ exited = FALSE
    /\ conns = [c \in Conns |-> [NoConn EXCEPT !.pc = "banner"]]
    /\ registry \in Registries
    /\ rc = NoCall

DSpec == DInit /\ [][QNext]_vars

(* One call of readCidrs and the scan of printNet that follows it, for     *)
(* every listing of a directory and every address.                         *)
CidrInit ==
    /\ ServerCreated(FALSE, 1)
    /\ SocketTimeout = TimeoutOption
    /\ registry = EmptyRegistry
    /\ \E dir \in Listings(CidrNames, MaxFiles) :
         \E ip \in QueryIPs :
            /\ NoRepeat(dir)
            /\ rc = [NoCall EXCEPT !.pc = "load", !.dir = dir, !.ip = ip]

\* one iteration of "for _, f := range files"
ReadCidrsEntry ==
    /\ rc.pc = "load"
    /\ rc.i < Len(rc.dir)
    /\ rc' = [rc EXCEPT !.i = @ + 1,
                        !.cidrs = readCidrsStep(@, rc.dir[rc.i + 1])]
    /\ UNCHANGED <<SocketActivation, SocketTimeout, stopListening, activeWorkers,
                   LastConnection, now, run, main, exited, conns, registry>>

\* return cidrs, nil
ReadCidrsReturn ==
    /\ rc.pc = "load"
    /\ rc.i = Len(rc.dir)
    /\ rc' = [rc EXCEPT !.pc = "scan"]
    /\ UNCHANGED <<SocketActivation, SocketTimeout, stopListening, activeWorkers,
                   LastConnection, now, run, main, exited, conns, registry>>

\* the loop of printNet over cidrs: the networks that contain ip and the
\* keys handed to printObject
PrintNetScan ==
    /\ rc.pc = "scan"
    /\ LET sel == containing(rc.cidrs, rc.ip)
       IN rc' = [rc EXCEPT !.pc = "done", !.sel = sel,
                           !.objs = [k \in 1..Len(sel) |-> netKey(sel[k])]]
    /\ UNCHANGED <<SocketActivation, SocketTimeout, stopListening, activeWorkers,
                   LastConnection, now, run, main, exited, conns, registry>>

CidrNext == ReadCidrsEntry \/ ReadCidrsReturn \/ PrintNetScan

CidrSpec == CidrInit /\ [][CidrNext]_vars

(* ============================== the claims ============================= *)

\* A connection that was accepted and is not yet closed by its handler.
InFlight(c) == conns[c].pc \in {"accepted", "banner", "read", "close"}
\* Shutdown has stored the stop flag.
DrainSignalled == main.pc \in {"wait", "woken", "returned", "exited"}
\* The accept loop of every listener has closed its listener and returned.
LoopsDone == \A l \in Listeners : run[l].pc \in {"absent", "done"}
\* The step is an accept of a connection by the loop of listener l.
AcceptStep(l) == run[l].pc = "accept" /\ run'[l].pc = "add"

(* C1: Shutdown does not return while a connection handler is running:     *)
(* in the step in which Shutdown returns, every accepted connection has    *)
(* been handled and closed.                                                *)
C1_ShutdownWaitsForHandlers ==
    [][(main.pc = "woken" /\ main'.pc = "returned")
          => \A c \in Conns : ~InFlight(c)']_vars

(* C2: after the drain signal (Shutdown has set the stop flag) no accept   *)
(* loop accepts a connection and dispatches it to a handler.               *)
C2_NoAcceptAfterDrain ==
    [][\A l \in Listeners : AcceptStep(l) => ~DrainSignalled]_vars

(* C3: once Shutdown is called, every accept loop eventually reads the     *)
(* stop flag, closes its listener and returns, and Shutdown returns        *)
(* (unless the process ends first).                                        *)
C3_DrainStopsAllListeners ==
    (main.pc = "wait") ~> (exited \/ (LoopsDone /\ main.pc = "returned"))

\* HandleQuery has returned for connection c.
Answered(c) == conns[c].pc \in {"close", "closed"}
\* The request line of c was read.
WasRead(c) == ReadString(conns[c].input).e = "nil"
\* The words of the request line of c, without its line ending.
IsWord(w) == w # <<>>
Tokens(c) == SelectSeq(Split(TrimSpace(ReadString(conns[c].input).req)), IsWord)
\* The request of c is a list of identifiers: no flag, no quoting.
IsObjectQuery(c) ==
    /\ WasRead(c)
    /\ \A i \in 1..Len(Tokens(c)) : Head(Tokens(c)[i]) \notin {"-", "'", "\""}
\* The request of c carries a server-info directive the server knows.
IsDirective(c) ==
    /\ WasRead(c)
    /\ Len(Tokens(c)) >= 2
    /\ Tokens(c)[1] = <<"-", "q">>
    /\ Tokens(c)[2] \in {W_version, W_sources, W_types}
\* The positions of the record headers in a response.
Headers(out) == {j \in 1..Len(out) : out[j].k = "header"}
\* The place of a type in the catalog.
TypeIndex(name) == CHOOSE i \in 1..Len(whoisTypes) : whoisTypes[i].Name = name
\* The lookup of rule t alone yields a record for the object.
RuleYields(reg, object, t) ==
    LET arg == ObjectArg(object, t.Kind)
    IN IF t.Kind = ROUTE \/ t.Kind = ROUTE6
       THEN arg # NIL /\ printNet(reg, t.Name, arg).out # <<>>
       ELSE MatchString(t.Pattern, arg) /\ OpenFile(reg, t.Name, arg) = "ok"

(* C4: the response to a query of one token has a block for every catalog  *)
(* rule whose lookup yields a record for the token (for an address, every  *)
(* network type with a containing entry), the blocks are in the order of   *)
(* the catalog, and no block is written twice.                             *)
C4_EveryMatchingRule ==
    \A c \in Conns :
        (Answered(c) /\ IsObjectQuery(c) /\ Len(Tokens(c)) = 1) =>
            LET out == conns[c].out
                object == parseObject(Tokens(c)[1])
            IN /\ \A i \in 1..Len(whoisTypes) :
                     RuleYields(registry, object, whoisTypes[i]) =>
                        \E j \in Headers(out) : out[j].t = whoisTypes[i].Name
               /\ \A j, k \in Headers(out) :
                     j < k => /\ TypeIndex(out[j].t) <= TypeIndex(out[k].t)
                              /\ out[j] # out[k]

\* A parsable entry of a listing, and its network.
Parsable(name) == ParseCIDR(Replace(name, "_", "/")).ok
NetOf(name) == ParseCIDR(Replace(name, "_", "/")).net
\* The entries of the listing whose network contains the address.
ContainingEntries(dir, ip) ==
    {i \in 1..Len(dir) : Parsable(dir[i]) /\ Contains(NetOf(dir[i]), ip)}

(* C5: readCidrs loads every parsable entry of the listing, whatever the   *)
(* order of the listing and wherever the unparsable names stand in it, and *)
(* the scan of printNet selects the networks of exactly the entries that   *)
(* contain the address, each as often as the listing holds it.             *)
C5_MatchingNetworks ==
    /\ rc.pc \in {"scan", "done"} =>
          Len(rc.cidrs) = Cardinality({i \in 1..Len(rc.dir) : Parsable(rc.dir[i])})
    /\ rc.pc = "done" =>
          /\ Len(rc.sel) = Cardinality(ContainingEntries(rc.dir, rc.ip))
          /\ \A i \in ContainingEntries(rc.dir, rc.ip) :
                Cardinality({k \in 1..Len(rc.sel) : rc.sel[k] = NetOf(rc.dir[i])})
                = Cardinality({j \in ContainingEntries(rc.dir, rc.ip) :
                                  NetOf(rc.dir[j]) = NetOf(rc.dir[i])})

\* A listing that begins with an unparsable name and lists a shorter
\* prefix after a longer one; both networks were selected.
C5_Witness ==
    /\ rc.pc = "done"
    /\ Len(rc.dir) = MaxFiles
    /\ ~Parsable(rc.dir[1])
    /\ Len(rc.sel) = 2
    /\ \E i, j \in ContainingEntries(rc.dir, rc.ip) :
          i < j /\ BytesCompare(NetOf(rc.dir[i]).Mask, NetOf(rc.dir[j]).Mask) > 0

(* C6: the response to an object query that holds no record block holds    *)
(* the line '% 404'.                                                       *)
C6_NotFoundMarker ==
    \A c \in Conns :
        (Answered(c) /\ IsObjectQuery(c) /\ Headers(conns[c].out) = {}) =>
            \E j \in 1..Len(conns[c].out) : conns[c].out[j] = NotFound

(* C7: nothing is written to a connection whose request line could not be  *)
(* read.                                                                   *)
C7_NoResponseWithoutRequest ==
    \A c \in Conns : (Answered(c) /\ ~WasRead(c)) => conns[c].out = <<>>

\* The pieces are record blocks: header, body and line break of one record.
Blocks(m) ==
    /\ Len(m) % 3 = 0
    /\ \A j \in 1..Len(m) :
          /\ m[j].k = (CASE j % 3 = 1 -> "header" [] j % 3 = 2 -> "body" [] OTHER -> "nl")
          /\ j % 3 # 1 => (m[j].t = m[j - 1].t /\ m[j].o = m[j - 1].o)

(* C8: when the handler of a request that was read has returned, and so    *)
(* when the connection is closed, the response is the banner, then either  *)
(* one or more record blocks or the line '% 404', then a blank line.       *)
C8_ResponseOrder ==
    \A c \in Conns :
        (Answered(c) /\ WasRead(c)) =>
            LET out == conns[c].out
                m == Sub(out, 2, Len(out) - 1)
            IN /\ Len(out) >= 3
               /\ out[1] = Banner
               /\ out[Len(out)] = BlankLine
               /\ m = <<NotFound>> \/ (m # <<>> /\ Blocks(m))

(* C9: the response to a request that carries -q version, -q sources or    *)
(* -q types is the banner and the fixed response of the directive (for     *)
(* types, the names of the catalog in its order) and nothing of a lookup,  *)
(* whatever follows the directive.                                         *)
C9_ServerInfoBypass ==
    \A c \in Conns :
        (Answered(c) /\ IsDirective(c)) =>
            conns[c].out = <<Banner>> \o printServerInfo(Tokens(c)[2])

(* C10, as claimed: the server starts to drain only on a signal or, with   *)
(* socket activation only, at an idle check at which the time since the    *)
(* last connection exceeds the threshold.                                  *)
C10_DrainOnlyBeyondThreshold ==
    [][(main.pc = "select" /\ main'.pc = "shutdown") =>
          \/ main'.cause = "signal"
          \/ /\ main'.cause = "idle"
             /\ SocketActivation
             /\ now - main.timer >= CheckPeriod
             /\ Since(LastConnection) > SocketTimeout]_vars

(* C10, amended: ... at an idle check at which the time since the last     *)
(* connection timestamp is at least the threshold; the stop flag is set by *)
(* Shutdown alone, after one of the two.                                   *)
C10_DrainOnlyOnSignalOrIdle ==
    [][/\ (main.pc = "select" /\ main'.pc = "shutdown") =>
             \/ main'.cause = "signal"
             \/ /\ main'.cause = "idle"
                /\ SocketActivation
                /\ now - main.timer >= CheckPeriod
                /\ Since(LastConnection) >= SocketTimeout
       /\ (stopListening = 0 /\ stopListening' = 1) =>
             (main.pc = "shutdown" /\ main.cause \in {"signal", "idle"})]_vars

\* The idle check started the drain with the time since the last
\* connection equal to the threshold.
C10_Witness ==
    /\ main.pc = "shutdown"
    /\ main.cause = "idle"
    /\ \E c \in Conns : conns[c].pc # "none"
    /\ Since(LastConnection) = SocketTimeout

(* C11: an accept that ends with a deadline expiry brings the loop back to *)
(* the test of the stop flag with no connection dispatched and nothing     *)
(* else changed, the in-flight counter included; any other accept error    *)
(* ends the process, after which nothing runs.                             *)
C11_AcceptErrors ==
    [][/\ \A l \in Listeners :
             /\ (run[l].pc = "accept" /\ run'[l].pc = "check") =>
                   /\ activeWorkers' = activeWorkers
                   /\ conns' = conns
                   /\ run'[l].conn = 0
                   /\ ~exited'
                   /\ UNCHANGED <<stopListening, LastConnection, main>>
             /\ (run[l].pc # "fatal" /\ run'[l].pc = "fatal") =>
                   (run[l].pc = "accept" /\ exited' /\ conns' = conns)
       /\ exited => UNCHANGED vars]_vars

\* An accept error ended the process while the other loop was in its
\* accept and a handler was running.
C11_Witness ==
    /\ exited
    /\ \E l, k \in Listeners : run[l].pc = "fatal" /\ run[k].pc = "accept"
    /\ \E c \in Conns : InFlight(c)

\* The Run goroutines that have done Add(1) and not yet Done().
RegisteredLoops ==
    {l \in Listeners :
        run[l].pc \in {"check", "accept", "add", "now", "stamp", "go", "exit", "fatal"}}
\* The connections counted by Add(1) whose handler has not done Done().
CountedConns ==
    {c \in Conns :
        \/ conns[c].pc \in {"banner", "read", "close"}
        \/ /\ conns[c].pc = "accepted"
           /\ \E l \in Listeners :
                 run[l].conn = c /\ run[l].pc \in {"now", "stamp", "go"}}

(* C14: the in-flight counter is never negative and equals the number of   *)
(* accept loops that have registered and not returned plus the number of   *)
(* accepted connections that were counted and whose handler has not yet    *)
(* closed the connection; a handler is dispatched only for a counted       *)
(* connection.                                                             *)
C14_InFlightAccounting ==
    /\ activeWorkers >= 0
    /\ activeWorkers = Cardinality(RegisteredLoops) + Cardinality(CountedConns)
    /\ \A l \in Listeners : run[l].pc = "go" => run[l].conn \in CountedConns

\* One handler has closed the connection of a request that could not be
\* read, another has answered a server-info request and not yet closed.
C14_Witness ==
    /\ \E c, d \in Conns :
          /\ conns[c].pc = "closed" /\ ~WasRead(c)
          /\ conns[d].pc = "close" /\ IsDirective(d)
    /\ activeWorkers = Cardinality(RegisteredLoops) + 1

(* C15: no two accesses to the last-connection timestamp without           *)
(* synchronization are possible at the same time: never are two accept     *)
(* loops both at the assignment of line 56, nor one of them at it while    *)
(* main can read the timestamp for the idle check.                         *)
C15_NoUnsynchronizedAccess ==
    /\ \A l, k \in Listeners : (run[l].pc = "stamp" /\ run[k].pc = "stamp") => l = k
    /\ \A l \in Listeners :
          ~(run[l].pc = "stamp" /\ ENABLED MainIdleCheck)

(* C16: the last-connection timestamp never decreases from one state to    *)
(* the next.                                                               *)
C16_LastConnectionMonotone ==
    [][LastConnection' >= LastConnection]_vars

\* The flags of the request fail to parse.
FlagError(input) ==
    ReadString(input).e = "nil" /\ parseFlags(ReadString(input).req).err # ""

(* C20: the handler of a request whose flags fail to parse writes the      *)
(* banner and the usage and nothing of a lookup, without ending the        *)
(* process or touching an accept loop or another connection, and then      *)
(* closes the connection and decrements the in-flight counter.             *)
C20_FlagErrorNotFatal ==
    [][\A c \in Conns :
          /\ (conns[c].pc = "read" /\ conns'[c].pc = "close"
                /\ FlagError(conns'[c].input)) =>
                /\ conns'[c].out = <<Banner>> \o parseQuery(conns'[c].input).out
                /\ \A j \in 1..Len(conns'[c].out) :
                      conns'[c].out[j].k \in {"banner", "flagerror", "defaults"}
                /\ ~exited'
                /\ \A d \in Conns \ {c} : conns'[d] = conns[d]
                /\ UNCHANGED <<run, activeWorkers, stopListening>>
          /\ (conns[c].pc = "close" /\ FlagError(conns[c].input)) =>
                \/ UNCHANGED conns[c]
                \/ /\ conns'[c] = [conns[c] EXCEPT !.pc = "closed"]
                   /\ activeWorkers' = activeWorkers - 1
                   /\ ~exited'
                   /\ UNCHANGED run]_vars

\* The connection of a request with an unknown flag is closed while an
\* accept loop and the handler of another connection go on.
C20_Witness ==
    \E c, d \in Conns :
        /\ conns[c].pc = "closed" /\ FlagError(conns[c].input)
        /\ conns[c].out = <<Banner, Piece("flagerror", "", <<>>), Piece("defaults", "", <<>>)>>
        /\ conns[d].pc = "read"
        /\ \E l \in Listeners : run[l].pc = "accept"
        /\ ~exited

\* The registry with every directory listed in the opposite order.
Reverse(l) == [i \in 1..Len(l) |-> l[Len(l) + 1 - i]]
ReverseListings(reg) ==
    [t \in TypeNames |-> [reg[t] EXCEPT !.files = Reverse(@)]]
\* What HandleQuery writes after the banner when the directories are
\* listed in the opposite order.
responsesReversed ==
    [reg \in Registries, input \in Requests |->
        handleQueryRest(ReverseListings(reg), input)]

(* The two conversions between a network and its file name, and the       *)
(* classification of a token, each applied to one input.                   *)

\* The texts address/n over the address literals.
CidrTexts == {<<l.text, "/">> \o Itoa(n) : l \in IPLiterals, n \in 0..128}
\* A network whose address is among the literals, so that it has a text.
HasText(net) ==
    LET n == networkNumberAndMask(net)
        b == IF Len(n.IP) = 4 THEN v4InV6Prefix \o n.IP ELSE n.IP
    IN \E l \in IPLiterals : l.ip = b /\ l.canon
\* The networks readCidrs can hold: what ParseCIDR returns for a text.
Networks ==
    {ParseCIDR(t).net : t \in {u \in CidrTexts : ParseCIDR(u).ok /\ HasText(ParseCIDR(u).net)}}
\* Tokens of a request line.
ObjectTokens ==
    { W_AS1, W_xx, <<>>, <<"/">>,
      <<"10.0.0.1">>, <<"fd00::1">>, <<"FD00::1">>, <<"::ffff:10.0.0.0">>,
      <<"172.23.136.0", "/", "2", "3">>, <<"10.0.0.1", "/", "8">>,
      <<"fd00::", "/", "8">>, <<"FD00::", "/", "8">>,
      <<"10.0.0.0", "/", "3", "3">>, <<"10.0.0.0", "_", "8">>,
      <<"x", "/", "10.0.0.1">>, <<"10.0.0.1", "/">>, <<"x", "/", "fd00::1">>,
      <<"x", "/", "10.0.0.0", "/", "8">>, <<"x", "/", "A", "S", "1">> }

NoConversion == [pc |-> "idle", net |-> [IP |-> NIL, Mask |-> NIL], name |-> <<>>,
                 back |-> ParseCIDR(<<>>), arg |-> <<>>, object |-> parseObject(<<>>)]

NetInit ==
    /\ ServerCreated(FALSE, 1)
    /\ SocketTimeout = TimeoutOption
    /\ registry = EmptyRegistry
    /\ \/ \E n \in Networks : rc = [NoConversion EXCEPT !.pc = "net", !.net = n]
       \/ \E t \in ObjectTokens : rc = [NoConversion EXCEPT !.pc = "token", !.arg = t]

\* printNet: the key of a network
EncodeName ==
    /\ rc.pc = "net"
    /\ rc' = [rc EXCEPT !.pc = "name", !.name = netKey(rc.net)]
    /\ UNCHANGED <<SocketActivation, SocketTimeout, stopListening, activeWorkers,
                   LastConnection, now, run, main, exited, conns, registry>>

\* readCidrs: the network of a file name
DecodeName ==
    /\ rc.pc = "name"
    /\ rc' = [rc EXCEPT !.pc = "decoded",
                        !.back = ParseCIDR(Replace(rc.name, "_", "/"))]
    /\ UNCHANGED <<SocketActivation, SocketTimeout, stopListening, activeWorkers,
                   LastConnection, now, run, main, exited, conns, registry>>

\* parseObject on one token
ParseObject ==
    /\ rc.pc = "token"
    /\ rc' = [rc EXCEPT !.pc = "object", !.object = parseObject(rc.arg)]
    /\ UNCHANGED <<SocketActivation, SocketTimeout, stopListening, activeWorkers,
                   LastConnection, now, run, main, exited, conns, registry>>

NetNext == EncodeName \/ DecodeName \/ ParseObject

NetSpec == NetInit /\ [][NetNext]_vars

Classified(object) ==
    IF object.route # NIL THEN object.route ELSE object.route6

(* C19 as stated: a token is classified exactly when the whole token       *)
(* parses as an address or as a network.                                   *)
C19_WholeToken ==
    rc.pc = "object" =>
        (Classified(rc.object) # NIL <=>
            (ParseIP(rc.arg) # NIL \/ ParseCIDR(rc.arg).ok))

(* C19: the final path segment is parsed as an address and, if that        *)
(* fails, the whole token as a network; the token is classified exactly    *)
(* when one of the two succeeds, as IPv4 (4 bytes) or IPv6 (16 bytes) and  *)
(* never both, and its upper and lower forms are those of the final        *)
(* segment.                                                                *)
C19_Classification ==
    rc.pc = "object" =>
        LET seg  == Base(rc.arg)
            addr == IF ParseIP(seg) # NIL THEN ParseIP(seg)
                    ELSE IF ParseCIDR(rc.arg).ok THEN ParseCIDR(rc.arg).ip
                    ELSE NIL
        IN /\ Classified(rc.object) # NIL <=>
                 (ParseIP(seg) # NIL \/ ParseCIDR(rc.arg).ok)
           /\ rc.object.route = NIL \/ rc.object.route6 = NIL
           /\ rc.object.route # NIL =>
                 /\ Len(rc.object.route) = 4
                 /\ v4InV6Prefix \o rc.object.route = addr
           /\ rc.object.route6 # NIL =>
                 /\ Len(rc.object.route6) = 16
                 /\ rc.object.route6 = addr
           /\ rc.object.upper = ToUpper(seg)
           /\ rc.object.lower = ToLower(seg)

\* A token with a path prefix before an address was classified as IPv4.
C19_Witness ==
    /\ rc.pc = "object"
    /\ rc.arg = <<"x", "/", "10.0.0.1">>
    /\ rc.object.route = <<10, 0, 0, 1>>
    /\ rc.object.upper = <<"10.0.0.1">>

(* C12: two connections with the same request get the same response,       *)
(* whatever the other connection does meanwhile, and the response is the   *)
(* one the registry gives with its directories listed in another order.    *)
C12_Determinism ==
    /\ \A c, d \in Conns :
          (Answered(c) /\ Answered(d) /\ conns[c].input = conns[d].input) =>
             conns[c].out = conns[d].out
    /\ \A c \in Conns :
          Answered(c) =>
             conns[c].out = <<Banner>> \o responsesReversed[registry, conns[c].input]

\* Both connections asked for an address inside two nested networks that
\* the directory lists with the longer prefix first, and got both blocks.
C12_Witness ==
    /\ registry = RegNested
    /\ \A c \in Conns :
          /\ conns[c].pc = "closed"
          /\ conns[c].input = Line(<<"10.1.0.1">>)
          /\ Cardinality(Headers(conns[c].out)) = 2

\* The prefix length of a loaded network.
PrefixLength(net) == MaskLength(net.Mask)
\* The parsable entries among the first i of a listing.
ParsableUpTo(dir, i) == {j \in 1..i : Parsable(dir[j])}

(* C17: after each directory entry the list readCidrs builds is in         *)
(* ascending order of prefix length and holds the networks of exactly the  *)
(* parsable entries seen so far, each as often as it was seen.             *)
C17_SortedAfterEachEntry ==
    rc.pc \in {"load", "scan", "done"} =>
        /\ \A j, k \in 1..Len(rc.cidrs) :
              j < k => PrefixLength(rc.cidrs[j]) <= PrefixLength(rc.cidrs[k])
        /\ Len(rc.cidrs) = Cardinality(ParsableUpTo(rc.dir, rc.i))
        /\ \A j \in ParsableUpTo(rc.dir, rc.i) :
              Cardinality({k \in 1..Len(rc.cidrs) : rc.cidrs[k] = NetOf(rc.dir[j])})
              = Cardinality({k \in ParsableUpTo(rc.dir, rc.i) :
                                NetOf(rc.dir[k]) = NetOf(rc.dir[j])})

\* The entry read last went to the front of a list that holds an IPv4 and
\* an IPv6 network of the same prefix length.
C17_Witness ==
    /\ rc.pc = "load"
    /\ rc.i = MaxFiles
    /\ Len(rc.cidrs) = MaxFiles
    /\ rc.cidrs[1] = NetOf(rc.dir[rc.i])
    /\ PrefixLength(rc.cidrs[1]) = PrefixLength(rc.cidrs[2])
    /\ Len(rc.cidrs[1].Mask) # Len(rc.cidrs[2].Mask)
    /\ PrefixLength(rc.cidrs[2]) < PrefixLength(rc.cidrs[3])

(* C18: the keys printNet fetches are the file names of the entries whose  *)
(* network contains the address: every key is the name of such an entry    *)
(* and every such entry's name is a key.                                   *)
C18_OriginalKey ==
    rc.pc = "done" =>
        /\ \A k \in 1..Len(rc.objs) :
              \E i \in ContainingEntries(rc.dir, rc.ip) : rc.objs[k] = rc.dir[i]
        /\ \A i \in ContainingEntries(rc.dir, rc.ip) :
              \E k \in 1..Len(rc.objs) : rc.objs[k] = rc.dir[i]

====
